---- MODULE Spec2Model ----
(***************************************************************************)
(* Model of google/cloud/bigtable/base_cluster.py: the BaseCluster value   *)
(* object, its resource-name parser, its wire-format mapping, its          *)
(* identity-based equality and its lifecycle stubs.                        *)
(*                                                                         *)
(* Representation.  A Python str is a sequence of one-character strings.   *)
(* An optional value (a Python value that may be None) is a sequence of    *)
(* length at most one: None is << >> and a value v is << v >>.             *)
(***************************************************************************)
EXTENDS Integers, Sequences, FiniteSets, TLC

(***************************************************************************)
(* Bounds of the model.                                                    *)
(***************************************************************************)
MaxServeNodes == 2
MaxStorageType == 1
MaxState == 1

None == << >>
Some(v) == << v >>

(***************************************************************************)
(* Characters and character classes used by _CLUSTER_NAME_RE.              *)
(***************************************************************************)
NL == "\n"
Lower == {"a", "b", "c", "d", "e", "f", "g", "h", "i", "j", "k", "l", "m",
          "n", "o", "p", "q", "r", "s", "t", "u", "v", "w", "x", "y", "z"}
Digit == {"0", "1", "2", "3", "4", "5", "6", "7", "8", "9"}
IdFirst == Lower
IdRest == Lower \cup Digit \cup {"-"}

LitProjects == <<"p", "r", "o", "j", "e", "c", "t", "s", "/">>
LitInstances == <<"/", "i", "n", "s", "t", "a", "n", "c", "e", "s", "/">>
LitClusters == <<"/", "c", "l", "u", "s", "t", "e", "r", "s", "/">>
LitLocations == <<"/", "l", "o", "c", "a", "t", "i", "o", "n", "s", "/">>
StrNone == <<"N", "o", "n", "e">>

(***************************************************************************)
(* Regular-expression pieces.  Every piece is tried at a position i of s   *)
(* and yields the position after it, or 0 when it does not match there.    *)
(***************************************************************************)
\* a literal at position i
Lit(s, lit, i) ==
    IF i >= 1 /\ i + Len(lit) - 1 <= Len(s) /\ SubSeq(s, i, i + Len(lit) - 1) = lit
    THEN i + Len(lit)
    ELSE 0

\* [^/]+ followed by a literal "/": the run is the maximal one
NotSlashRun(s, i) ==
    IF i < 1 \/ i > Len(s) \/ s[i] = "/"
    THEN 0
    ELSE CHOOSE e \in (i + 1)..(Len(s) + 1) :
            /\ \A j \in i..(e - 1) : s[j] # "/"
            /\ (e = Len(s) + 1 \/ s[e] = "/")

\* [a-z][-a-z0-9]* followed by $: the run is the maximal one
ClusterIdRun(s, i) ==
    IF i < 1 \/ i > Len(s) \/ s[i] \notin IdFirst
    THEN 0
    ELSE CHOOSE e \in (i + 1)..(Len(s) + 1) :
            /\ \A j \in (i + 1)..(e - 1) : s[j] \in IdRest
            /\ (e = Len(s) + 1 \/ s[e] \notin IdRest)

\* $ without re.MULTILINE: the end of the string, or just before a newline
\* that is the last character of the string
Dollar(s, i) ==
    i >= 1 /\ (i = Len(s) + 1 \/ (i = Len(s) /\ s[i] = NL))

(***************************************************************************)
(* _CLUSTER_NAME_RE.match(name): None, or the three named groups.          *)
(***************************************************************************)
ClusterNameMatch(name) ==
    LET p0 == Lit(name, LitProjects, 1)
        p1 == NotSlashRun(name, p0)
        i0 == Lit(name, LitInstances, p1)
        i1 == NotSlashRun(name, i0)
        c0 == Lit(name, LitClusters, i1)
        c1 == ClusterIdRun(name, c0)
    IN  IF p0 # 0 /\ p1 # 0 /\ i0 # 0 /\ i1 # 0 /\ c0 # 0 /\ c1 # 0 /\ Dollar(name, c1)
        THEN Some([project |-> SubSeq(name, p0, p1 - 1),
                   instance |-> SubSeq(name, i0, i1 - 1),
                   cluster_id |-> SubSeq(name, c0, c1 - 1)])
        ELSE None

(***************************************************************************)
(* str.split("/"): the list of the segments between the separators.        *)
(***************************************************************************)
RECURSIVE SplitFrom(_, _, _)
SplitFrom(s, start, i) ==
    IF i > Len(s)
    THEN << SubSeq(s, start, Len(s)) >>
    ELSE IF s[i] = "/"
         THEN << SubSeq(s, start, i - 1) >> \o SplitFrom(s, i + 1, i + 1)
         ELSE SplitFrom(s, start, i + 1)
Split(s) == SplitFrom(s, 1, 1)

(***************************************************************************)
(* The collaborators: clients, instances, the admin client's path          *)
(* builders and the wire-format message.                                   *)
(***************************************************************************)
Clients == {1, 2}
InstanceRefs == {1, 2, 3}
\* instances 1 and 2 are two objects with the same id on the same client
InstanceObj(r) ==
    IF r = 3 THEN [instance_id |-> <<"j">>, _client |-> 2]
             ELSE [instance_id |-> <<"i">>, _client |-> 1]
InitProject == [c \in Clients |-> IF c = 1 THEN <<"p">> ELSE <<"q">>]

\* str(x) of an optional string
Str(x) == IF x = None THEN StrNone ELSE x[1]

\* instance_admin_client.cluster_path(project, instance, cluster)
cluster_path(proj, instance, cluster) ==
    LitProjects \o proj \o LitInstances \o instance \o LitClusters \o cluster

\* instance_admin_client.location_path(project, location)
location_path(proj, location) ==
    LitProjects \o proj \o LitLocations \o Str(location)

\* instance_pb2.Cluster(location=, serve_nodes=, default_storage_type=):
\* a keyword given as None leaves the field at its default
PbCluster(location, serve_nodes, default_storage_type) ==
    [name |-> << >>,
     location |-> location,
     serve_nodes |-> IF serve_nodes = None THEN 0 ELSE serve_nodes[1],
     default_storage_type |->
         IF default_storage_type = None THEN 0 ELSE default_storage_type[1],
     state |-> 0]

\* Instance.__eq__: same instance id on the same client object
InstanceEq(a, b) ==
    /\ InstanceObj(a).instance_id = InstanceObj(b).instance_id
    /\ InstanceObj(a)._client = InstanceObj(b)._client

\* the classes: Cluster and AsyncCluster stand for two subclasses of
\* BaseCluster that inherit __eq__, object for a value that is no cluster
Classes == {"BaseCluster", "Cluster", "AsyncCluster"}
IsSubclass(c, d) == c = d \/ (c \in Classes /\ d = "BaseCluster")
isinstance(obj, cls) == IsSubclass(obj.cls, cls)
Foreign == [cls |-> "object"]

(***************************************************************************)
(* The state.                                                              *)
(***************************************************************************)
VARIABLES
    project,     \* client -> its project id
    clusters,    \* reference -> the BaseCluster object it names
    cluster_pb,  \* the wire-format message at hand, if any
    ret          \* the last call: its name, receiver and outcome
vars == <<project, clusters, cluster_pb, ret>>

ClientProject(instance) == project[InstanceObj(instance)._client]

(***************************************************************************)
(* BaseCluster.                                                            *)
(***************************************************************************)
__init__(cls, cluster_id, instance, location_id, serve_nodes, default_storage_type, _state) ==
    [cls |-> cls,
     cluster_id |-> cluster_id,
     _instance |-> instance,
     location_id |-> location_id,
     serve_nodes |-> serve_nodes,
     default_storage_type |-> default_storage_type,
     _state |-> _state]

\* a refresh that keeps the whole location path
_update_from_pb_whole_path(self, pb) ==
    [self EXCEPT
        !.location_id = Some(pb.location),
        !.serve_nodes = Some(pb.serve_nodes),
        !.default_storage_type = Some(pb.default_storage_type),
        !._state = Some(pb.state)]

_update_from_pb(self, pb) ==
    [self EXCEPT
        !.location_id = Some(Split(pb.location)[Len(Split(pb.location))]),
        !.serve_nodes = Some(pb.serve_nodes),
        !.default_storage_type = Some(pb.default_storage_type),
        !._state = Some(pb.state)]

ValueError(message, detail) ==
    [type |-> "ValueError", message |-> message, detail |-> detail]
NotImplementedError ==
    [type |-> "NotImplementedError", message |-> "", detail |-> None]
Raise(exc) == [raised |-> Some(exc), result |-> None]
Return(v) == [raised |-> None, result |-> Some(v)]

\* from_pb with the project compared before the instance id
from_pb_project_first(cls, pb, instance) ==
    LET match_cluster_name == ClusterNameMatch(pb.name)
    IN  IF match_cluster_name = None
        THEN Raise(ValueError("Cluster protobuf name was not in the expected format.",
                              Some(pb.name)))
        ELSE IF match_cluster_name[1].project # ClientProject(instance)
        THEN Raise(ValueError("Project ID on cluster does not match the project ID on the client",
                              None))
        ELSE IF match_cluster_name[1].instance # InstanceObj(instance).instance_id
        THEN Raise(ValueError("Instance ID on cluster does not match the instance ID on the client",
                              None))
        ELSE Return(_update_from_pb(
                        __init__(cls, match_cluster_name[1].cluster_id, instance,
                                 None, None, None, None),
                        pb))

from_pb(cls, pb, instance) ==
    LET match_cluster_name == ClusterNameMatch(pb.name)
    IN  IF match_cluster_name = None
        THEN Raise(ValueError("Cluster protobuf name was not in the expected format.",
                              Some(pb.name)))
        ELSE IF match_cluster_name[1].instance # InstanceObj(instance).instance_id
        THEN Raise(ValueError("Instance ID on cluster does not match the instance ID on the client",
                              None))
        ELSE IF match_cluster_name[1].project # ClientProject(instance)
        THEN Raise(ValueError("Project ID on cluster does not match the project ID on the client",
                              None))
        ELSE Return(_update_from_pb(
                        __init__(cls, match_cluster_name[1].cluster_id, instance,
                                 None, None, None, None),
                        pb))

\* a name that keeps the project id the client started with
name_cached(self) ==
    cluster_path(InitProject[InstanceObj(self._instance)._client],
                 InstanceObj(self._instance).instance_id,
                 self.cluster_id)

name(self) ==
    cluster_path(ClientProject(self._instance),
                 InstanceObj(self._instance).instance_id,
                 self.cluster_id)

state(self) == self._state

\* an equality that also compares the node count
eq_compares_nodes(self, other) ==
    IF ~isinstance(other, self.cls)
    THEN "NotImplemented"
    ELSE IF other.cluster_id = self.cluster_id
            /\ InstanceEq(other._instance, self._instance)
            /\ other.serve_nodes = self.serve_nodes
         THEN "True"
         ELSE "False"

\* the method: "True", "False" or "NotImplemented"
__eq__(self, other) ==
    IF ~isinstance(other, self.cls)
    THEN "NotImplemented"
    ELSE IF other.cluster_id = self.cluster_id
            /\ InstanceEq(other._instance, self._instance)
         THEN "True"
         ELSE "False"

\* a create that marks the record as being created
create_sets_state(self) ==
    [raised |-> Some(NotImplementedError), self |-> [self EXCEPT !._state = Some(0)]]

\* an update that returns normally
update_succeeds(self) == [raised |-> None, self |-> self]

reload(self) == [raised |-> Some(NotImplementedError), self |-> self]
exists(self) == [raised |-> Some(NotImplementedError), self |-> self]
create(self) == [raised |-> Some(NotImplementedError), self |-> self]
update(self) == [raised |-> Some(NotImplementedError), self |-> self]
delete(self) == [raised |-> Some(NotImplementedError), self |-> self]

\* a _to_pb that leaves the node count out
to_pb_without_nodes(self) ==
    PbCluster(location_path(ClientProject(self._instance), self.location_id),
              None,
              self.default_storage_type)

\* a _to_pb that uses the project id the client started with
to_pb_stale_project(self) ==
    PbCluster(location_path(InitProject[InstanceObj(self._instance)._client],
                            self.location_id),
              self.serve_nodes,
              self.default_storage_type)

_to_pb(self) ==
    PbCluster(location_path(ClientProject(self._instance), self.location_id),
              self.serve_nodes,
              self.default_storage_type)

(***************************************************************************)
(* Objects by reference.  Reference 0 names a value that is no cluster.    *)
(***************************************************************************)
Live == DOMAIN clusters
Obj(r) == IF r = 0 THEN Foreign ELSE clusters[r]
Store(k, obj) == [x \in Live \cup {k} |-> IF x = k THEN obj ELSE clusters[x]]

\* object.__eq__, what a value that is no cluster answers
ObjectEq(a, b) == IF a = b THEN "True" ELSE "NotImplemented"
MethodEq(a, b) == IF a = 0 THEN ObjectEq(a, b) ELSE __eq__(Obj(a), Obj(b))

\* a == b: the method, then the reflected method, then identity
EqOp(a, b) ==
    IF MethodEq(a, b) # "NotImplemented" THEN MethodEq(a, b) = "True"
    ELSE IF MethodEq(b, a) # "NotImplemented" THEN MethodEq(b, a) = "True"
    ELSE a = b

__ne__(a, b) == ~EqOp(a, b)

(***************************************************************************)
(* The calls.  Every call records itself in ret.  A reference is bound     *)
(* once, by the constructor or by from_pb.                                 *)
(***************************************************************************)
Call(op, self, other, raised, value) ==
    [op |-> op, self |-> self, other |-> other, raised |-> raised, value |-> value]

Init ==
    /\ project = InitProject
    /\ clusters = << >>
    /\ cluster_pb = None
    /\ ret = Call("start", 0, 0, None, None)

\* the caller builds a record
Construct(k, cls, cluster_id, instance, location_id, serve_nodes, default_storage_type, _state) ==
    /\ k \notin Live
    /\ clusters' = Store(k, __init__(cls, cluster_id, instance, location_id,
                                     serve_nodes, default_storage_type, _state))
    /\ ret' = Call("__init__", k, instance, None, Some(_state))
    /\ UNCHANGED <<project, cluster_pb>>

\* a message arrives from the server
NewPb(pb) ==
    /\ cluster_pb' = Some(pb)
    /\ ret' = Call("receive", 0, 0, None, None)
    /\ UNCHANGED <<project, clusters>>

\* k = cls.from_pb(cluster_pb, instance)
FromPb(k, cls, instance) ==
    /\ k \notin Live
    /\ cluster_pb # None
    /\ LET r == from_pb(cls, cluster_pb[1], instance)
       IN  /\ clusters' = IF r.raised = None THEN Store(k, r.result[1]) ELSE clusters
           /\ ret' = Call("from_pb", IF r.raised = None THEN k ELSE 0, instance,
                          r.raised, None)
    /\ UNCHANGED <<project, cluster_pb>>

\* k._update_from_pb(cluster_pb)
UpdateFromPb(k) ==
    /\ k \in Live
    /\ cluster_pb # None
    /\ clusters' = Store(k, _update_from_pb(clusters[k], cluster_pb[1]))
    /\ ret' = Call("_update_from_pb", k, 0, None, None)
    /\ UNCHANGED <<project, cluster_pb>>

\* cluster_pb = k._to_pb()
ToPb(k) ==
    /\ k \in Live
    /\ cluster_pb' = Some(_to_pb(clusters[k]))
    /\ ret' = Call("_to_pb", k, 0, None, None)
    /\ UNCHANGED <<project, clusters>>

\* k.name
Name(k) ==
    /\ k \in Live
    /\ ret' = Call("name", k, 0, None, Some(name(clusters[k])))
    /\ UNCHANGED <<project, clusters, cluster_pb>>

\* k.state
State(k) ==
    /\ k \in Live
    /\ ret' = Call("state", k, 0, None, Some(state(clusters[k])))
    /\ UNCHANGED <<project, clusters, cluster_pb>>

BoolStr(b) == IF b THEN "True" ELSE "False"

\* a == b and a != b, on clusters or on a value that is no cluster
Eq(a, b) ==
    /\ a \in Live \cup {0}
    /\ b \in Live \cup {0}
    /\ ret' = Call("==", a, b, None, Some(BoolStr(EqOp(a, b))))
    /\ UNCHANGED <<project, clusters, cluster_pb>>

Ne(a, b) ==
    /\ a \in Live
    /\ b \in Live \cup {0}
    /\ ret' = Call("!=", a, b, None, Some(BoolStr(__ne__(a, b))))
    /\ UNCHANGED <<project, clusters, cluster_pb>>

\* the lifecycle stubs
Stub(op, k, r) ==
    /\ k \in Live
    /\ clusters' = Store(k, r.self)
    /\ ret' = Call(op, k, 0, r.raised, None)
    /\ UNCHANGED <<project, cluster_pb>>

Reload(k) == Stub("reload", k, reload(clusters[k]))
Exists(k) == Stub("exists", k, exists(clusters[k]))
Create(k) == Stub("create", k, create(clusters[k]))
Update(k) == Stub("update", k, update(clusters[k]))
Delete(k) == Stub("delete", k, delete(clusters[k]))

\* the owner of a client gives it another project id
SetProject(c, p) ==
    /\ project[c] # p
    /\ project' = [project EXCEPT ![c] = p]
    /\ ret' = Call("set_project", 0, 0, None, None)
    /\ UNCHANGED <<clusters, cluster_pb>>

(***************************************************************************)
(* The inputs.                                                             *)
(***************************************************************************)
Opt(S) == {None} \cup {Some(v) : v \in S}
ServeNodes == 0..MaxServeNodes
StorageTypes == 0..MaxStorageType
States == 0..MaxState
Projects == {<<"p">>, <<"q">>}
ClusterIds == {<<"c">>, <<"d", "-", "1">>}
LocationIds == {<<"a">>, <<"a", "/", "b">>}
Locations == {location_path(<<"p">>, Some(<<"a">>)), <<"b">>, <<"b", "/">>}

Pb(nm, location, serve_nodes, default_storage_type, st) ==
    [name |-> nm, location |-> location, serve_nodes |-> serve_nodes,
     default_storage_type |-> default_storage_type, state |-> st]

\* the lifecycle of one record
Names == {cluster_path(<<"p">>, <<"i">>, <<"c">>), cluster_path(<<"p">>, <<"i">>, <<"C">>)}
Payloads ==
    {Pb(nm, loc, sn, MaxStorageType - sn, st) :
        nm \in Names, loc \in Locations, sn \in {0, 1}, st \in {0, MaxState}}

Next ==
    \/ \E cls \in {"BaseCluster"}, cid \in {<<"c">>}, inst \in {1},
          loc \in Opt(LocationIds), sn \in Opt(ServeNodes),
          st \in Opt(StorageTypes), s \in Opt({MaxState}) :
            Construct(1, cls, cid, inst, loc, sn, st, s)
    \/ \E pb \in Payloads : NewPb(pb)
    \/ \E inst \in {1, 3} : FromPb(1, "BaseCluster", inst)
    \/ UpdateFromPb(1)
    \/ ToPb(1)
    \/ Name(1)
    \/ State(1)
    \/ \E b \in {0, 1} : Eq(1, b)
    \/ \E b \in {0, 1} : Ne(1, b)
    \/ Reload(1)
    \/ Exists(1)
    \/ Create(1)
    \/ Update(1)
    \/ Delete(1)
    \/ \E c \in Clients, p \in Projects : SetProject(c, p)

Spec == Init /\ [][Next]_vars

\* parsing resource names
ParseProjects == {<<"p">>, <<"q">>}
ParseInstances == {<<"i">>, <<"j">>}
ParseIds == {<<"c", "-", "1">>, <<"C">>, <<"1", "c">>, <<"c", "A">>, << >>}
ParseLeads == {<< >>, <<"x">>}
ParseTails == {<< >>, <<NL>>, <<"/", "x">>, <<"a">>}
ParseNames ==
    {lead \o cluster_path(p, i, c) \o tail :
        lead \in ParseLeads, p \in ParseProjects, i \in ParseInstances,
        c \in ParseIds, tail \in ParseTails}
    \cup {<< >>, cluster_path(<< >>, <<"i">>, <<"c">>), cluster_path(<<"p">>, << >>, <<"c">>)}
ParsePayloads ==
    {Pb(nm, f[1], f[2], f[3], f[4]) :
        nm \in ParseNames,
        f \in {<<location_path(<<"p">>, Some(<<"a">>)), 0, 0, 0>>,
               <<(<<"b", "/">>), MaxServeNodes, MaxStorageType, MaxState>>}}

NextParse ==
    \/ \E pb \in ParsePayloads : NewPb(pb)
    \/ \E cls \in Classes, inst \in InstanceRefs : FromPb(1, cls, inst)

SpecParse == Init /\ [][NextParse]_vars

\* comparing two records
EqPayloads ==
    {Pb(cluster_path(<<"p">>, <<"i">>, <<"c">>), <<"b">>, 0, 0, st) : st \in {MaxState}}

NextEq ==
    \/ \E k \in {1, 2}, cls \in Classes, cid \in ClusterIds, inst \in InstanceRefs,
          sn \in Opt({MaxServeNodes}) :
            Construct(k, cls, cid, inst, None, sn, None, None)
    \/ \E pb \in EqPayloads : NewPb(pb)
    \/ \E k \in {1, 2} : UpdateFromPb(k)
    \/ \E a \in {0, 1, 2}, b \in {0, 1, 2} : Eq(a, b)
    \/ \E a \in {1, 2}, b \in {0, 1, 2} : Ne(a, b)

SpecEq == Init /\ [][NextEq]_vars

(***************************************************************************)
(* What the properties speak of, stated apart from the code above.         *)
(***************************************************************************)
StrProjects == <<"p", "r", "o", "j", "e", "c", "t", "s">>
StrInstances == <<"i", "n", "s", "t", "a", "n", "c", "e", "s">>
StrClusters == <<"c", "l", "u", "s", "t", "e", "r", "s">>

\* [a-z][-a-z0-9]*
ValidClusterId(c) ==
    /\ Len(c) >= 1
    /\ c[1] \in Lower
    /\ \A j \in 2..Len(c) : c[j] \in Lower \cup Digit \cup {"-"}

\* the whole string is projects/{project}/instances/{instance}/clusters/{cluster_id}
IsFullName(s) ==
    LET seg == Split(s)
    IN  /\ Len(seg) = 6
        /\ seg[1] = StrProjects /\ seg[3] = StrInstances /\ seg[5] = StrClusters
        /\ seg[2] # << >> /\ seg[4] # << >>
        /\ ValidClusterId(seg[6])

\* the names _CLUSTER_NAME_RE accepts: a full name, or one with a newline after it
Accepted(s) ==
    \/ IsFullName(s)
    \/ Len(s) >= 1 /\ s[Len(s)] = NL /\ IsFullName(SubSeq(s, 1, Len(s) - 1))

FormatError(nm) ==
    ValueError("Cluster protobuf name was not in the expected format.", Some(nm))
InstanceMismatch ==
    ValueError("Instance ID on cluster does not match the instance ID on the client", None)
ProjectMismatch ==
    ValueError("Project ID on cluster does not match the project ID on the client", None)

\* the text of s after its last "/"
AfterLastSlash(s) ==
    LET from == CHOOSE i \in 1..(Len(s) + 1) :
                    /\ \A j \in i..Len(s) : s[j] # "/"
                    /\ (i = 1 \/ s[i - 1] = "/")
    IN  SubSeq(s, from, Len(s))

(***************************************************************************)
(* C1.  from_pb fails with the format error, carrying the name, for every  *)
(* payload whose name is not as a whole string of the form                 *)
(* projects/{project}/instances/{instance}/clusters/{cluster_id}, and      *)
(* returns no record then.                                                 *)
(***************************************************************************)
C1_RejectsAllButFullNames ==
    (ret.op = "from_pb" /\ ~IsFullName(cluster_pb[1].name))
        => (ret.raised = Some(FormatError(cluster_pb[1].name)) /\ ret.self = 0 /\ Live = {})

(***************************************************************************)
(* C2.  For a payload whose name the pattern accepts, from_pb fails if and *)
(* only if the instance id or the project in the name differs from the     *)
(* instance's; it reports the instance whenever the instance id differs,   *)
(* the project when only the project differs, and returns no record.       *)
(***************************************************************************)
C2_IdentityMismatch ==
    (ret.op = "from_pb" /\ Accepted(cluster_pb[1].name)) =>
        LET seg == Split(cluster_pb[1].name)
            instance_differs == seg[4] # InstanceObj(ret.other).instance_id
            project_differs == seg[2] # project[InstanceObj(ret.other)._client]
        IN  /\ (ret.raised # None) <=> (instance_differs \/ project_differs)
            /\ instance_differs => ret.raised = Some(InstanceMismatch)
            /\ (project_differs /\ ~instance_differs) => ret.raised = Some(ProjectMismatch)
            /\ (ret.raised # None) => (ret.self = 0 /\ Live = {})
            /\ (ret.raised = None) => ret.self \in Live

C2_Witness ==
    /\ ret.op = "from_pb"
    /\ Accepted(cluster_pb[1].name)
    /\ ret.raised = Some(ProjectMismatch)
    /\ Split(cluster_pb[1].name)[4] = InstanceObj(ret.other).instance_id

(***************************************************************************)
(* C3.  A successful from_pb returns a new record whose cluster id is the  *)
(* one in the payload's name, whose instance is the one passed in, whose   *)
(* location id is the last segment of the payload's location and whose     *)
(* node count, storage type and state are the payload's; the payload is    *)
(* left as it was.                                                         *)
(***************************************************************************)
C3_FromPbResult ==
    [][(ret'.op = "from_pb" /\ ret'.raised = None) =>
          LET c == clusters'[ret'.self]
              pb == cluster_pb[1]
              full == LitProjects \o project[InstanceObj(ret'.other)._client]
                        \o LitInstances \o InstanceObj(ret'.other).instance_id
                        \o LitClusters \o c.cluster_id
          IN  /\ cluster_pb' = cluster_pb
              /\ ret'.self \notin Live
              /\ pb.name \in {full, full \o <<NL>>}
              /\ c._instance = ret'.other
              /\ c.location_id = Some(AfterLastSlash(pb.location))
              /\ c.serve_nodes = Some(pb.serve_nodes)
              /\ c.default_storage_type = Some(pb.default_storage_type)
              /\ c._state = Some(pb.state)]_vars

C3_Witness ==
    /\ ret.op = "from_pb"
    /\ ret.raised = None
    /\ clusters[ret.self].location_id = Some(<<"a">>)
    /\ cluster_pb[1].location # <<"a">>
    /\ clusters[ret.self].cluster_id = <<"c", "-", "1">>

(***************************************************************************)
(* C10.  Whenever from_pb succeeds, the name of the record it returns is   *)
(* the payload's name, and its cluster id matches [a-z][-a-z0-9]*.         *)
(***************************************************************************)
C10_NameRoundTrip ==
    (ret.op = "from_pb" /\ ret.raised = None) =>
        /\ name(clusters[ret.self]) = cluster_pb[1].name
        /\ ValidClusterId(clusters[ret.self].cluster_id)

(***************************************************************************)
(* C4.  a == b on records.                                                 *)
(***************************************************************************)
SameIdentity(a, b) ==
    /\ clusters[a].cluster_id = clusters[b].cluster_id
    /\ InstanceEq(clusters[a]._instance, clusters[b]._instance)

\* C4 as claimed: a == b is true exactly when b is of the same concrete type
\* as a, with the same cluster id and an equal instance.
C4_SameConcreteType ==
    (ret.op = "==" /\ ret.self \in Live /\ ret.other \in Live) =>
        ((ret.value = Some("True")) <=>
            (clusters[ret.self].cls = clusters[ret.other].cls
             /\ SameIdentity(ret.self, ret.other)))

\* C4 as amended: for records a and b, a == b is true exactly when one of
\* them is an instance of the other's class, with the same cluster id and an
\* equal instance; it is reflexive and symmetric, a != b is its negation, and
\* no refresh from a payload changes the answer for any two records.
C4_RelatedType ==
    [][/\ \A a \in Live, b \in Live :
            /\ EqOp(a, b) <=>
                  (/\ \/ IsSubclass(clusters[a].cls, clusters[b].cls)
                      \/ IsSubclass(clusters[b].cls, clusters[a].cls)
                   /\ SameIdentity(a, b))
            /\ EqOp(a, b) <=> EqOp(b, a)
            /\ EqOp(a, a)
            /\ __ne__(a, b) <=> ~EqOp(a, b)
            /\ (ret'.op = "_update_from_pb") => (EqOp(a, b)' <=> EqOp(a, b))
       /\ (ret'.op = "==") => ret'.value = Some(BoolStr(EqOp(ret'.self, ret'.other)))
       /\ (ret'.op = "!=") => ret'.value = Some(BoolStr(~EqOp(ret'.self, ret'.other)))
      ]_vars

C4_Witness ==
    /\ ret.op = "=="
    /\ ret.self = 1 /\ ret.other = 2 /\ Live = {1, 2}
    /\ ret.value = Some("True")
    /\ clusters[1].cls # clusters[2].cls
    /\ clusters[1].serve_nodes # clusters[2].serve_nodes
    /\ clusters[1]._state # clusters[2]._state

(***************************************************************************)
(* C5.  _to_pb followed by _update_from_pb with the payload it produced.   *)
(***************************************************************************)
RoundTrip == ret.op = "_to_pb" /\ ret'.op = "_update_from_pb"

\* C5 as claimed: the round trip gives back the location id, the node count
\* and the storage type of every record, unset ones included.
C5_RoundTripAlways ==
    [][RoundTrip =>
          /\ clusters'[ret'.self].location_id = clusters[ret.self].location_id
          /\ clusters'[ret'.self].serve_nodes = clusters[ret.self].serve_nodes
          /\ clusters'[ret'.self].default_storage_type
                = clusters[ret.self].default_storage_type]_vars

\* C5 as amended: the round trip gives back a location id that is a string
\* without "/", and a node count and a storage type that are set; an unset
\* node count or storage type comes back as 0.
C5_RoundTripWhenSet ==
    [][RoundTrip =>
          LET before == clusters[ret.self]
              after == clusters'[ret'.self]
          IN  /\ (before.location_id # None
                    /\ \A j \in 1..Len(before.location_id[1]) :
                          before.location_id[1][j] # "/")
                 => after.location_id = before.location_id
              /\ after.serve_nodes =
                    IF before.serve_nodes = None THEN Some(0) ELSE before.serve_nodes
              /\ after.default_storage_type =
                    IF before.default_storage_type = None THEN Some(0)
                    ELSE before.default_storage_type]_vars

C5_Witness ==
    /\ ret.op = "_update_from_pb"
    /\ cluster_pb # None
    /\ cluster_pb[1].name = << >>
    /\ cluster_pb[1].location = LitProjects \o <<"q">> \o LitLocations \o <<"a">>
    /\ clusters[1].location_id = Some(<<"a">>)
    /\ clusters[1].serve_nodes = Some(MaxServeNodes)
    /\ clusters[1].default_storage_type = Some(MaxStorageType)

(***************************************************************************)
(* C6.  name is computed at every call from the project id of the          *)
(* instance's client, the instance id and the cluster id as they are then. *)
(***************************************************************************)
C6_NameIsLive ==
    (ret.op = "name") =>
        ret.value = Some(LitProjects
                         \o project[InstanceObj(clusters[ret.self]._instance)._client]
                         \o LitInstances
                         \o InstanceObj(clusters[ret.self]._instance).instance_id
                         \o LitClusters
                         \o clusters[ret.self].cluster_id)

C6_Witness ==
    /\ ret.op = "name"
    /\ project[InstanceObj(clusters[ret.self]._instance)._client]
          # InitProject[InstanceObj(clusters[ret.self]._instance)._client]
    /\ ret.value[1][Len(LitProjects) + 1] = "q"

(***************************************************************************)
(* C7.  Where the state of a record comes from.                            *)
(***************************************************************************)
StateSetAt(k) ==
    /\ k \in DOMAIN clusters'
    /\ (k \notin Live \/ clusters'[k]._state # clusters[k]._state)

FromPayload(k) ==
    /\ ret'.op \in {"from_pb", "_update_from_pb"}
    /\ ret'.self = k
    /\ cluster_pb # None
    /\ clusters'[k]._state = Some(cluster_pb[1].state)

\* C7 as claimed: a record's state is never anything but the state of the
\* payload last applied to it; no call of the caller's gives it a value.
C7_OnlyFromPayload ==
    [][\A k \in {1, 2} :
          (StateSetAt(k) /\ clusters'[k]._state # None) => FromPayload(k)]_vars

\* C7 as amended: a record's state is the _state argument of its constructor
\* (None by default) until a payload is applied, and from then on the state
\* of the payload last applied; nothing else changes it, and state() returns
\* it.
C7_FromPayloadOrConstructor ==
    [][/\ \A k \in {1, 2} :
            StateSetAt(k) =>
                \/ FromPayload(k)
                \/ /\ k \notin Live
                   /\ ret'.op = "__init__"
                   /\ ret'.self = k
                   /\ clusters'[k]._state = ret'.value[1]
       /\ (ret'.op = "state") => ret'.value = Some(clusters[ret'.self]._state)
      ]_vars

C7_Witness ==
    /\ ret.op = "state"
    /\ ret.value = Some(Some(0))
    /\ cluster_pb # None
    /\ cluster_pb[1].state = MaxState

StubOps == {"reload", "exists", "create", "update", "delete"}

(***************************************************************************)
(* C8.  reload, exists, create, update and delete always raise             *)
(* NotImplementedError and change nothing.                                 *)
(***************************************************************************)
C8_StubsRaise ==
    [][(ret'.op \in StubOps) =>
          /\ ret'.raised = Some(NotImplementedError)
          /\ ret'.self \in Live
          /\ clusters' = clusters
          /\ project' = project
          /\ cluster_pb' = cluster_pb]_vars

C8_Witness ==
    /\ ret.op = "update"
    /\ ret.raised = Some(NotImplementedError)
    /\ clusters[ret.self]._state = Some(0)
    /\ clusters[ret.self].serve_nodes = Some(1)

(***************************************************************************)
(* C9.  The payload _to_pb builds.                                         *)
(***************************************************************************)
LocationOf(k) ==
    LitProjects \o project[InstanceObj(clusters[k]._instance)._client]
        \o LitLocations \o clusters[k].location_id[1]

\* C9 as claimed: the payload's node count and storage type are the
\* record's, whatever they are.
C9_PayloadHasRecordFields ==
    (ret.op = "_to_pb") =>
        /\ clusters[ret.self].location_id # None
              => cluster_pb[1].location = LocationOf(ret.self)
        /\ Some(cluster_pb[1].serve_nodes) = clusters[ret.self].serve_nodes
        /\ Some(cluster_pb[1].default_storage_type)
              = clusters[ret.self].default_storage_type
        /\ cluster_pb[1].name = << >>
        /\ cluster_pb[1].state = 0

\* C9 as amended: the payload's location is the path built from the client's
\* project id and the record's location id, its node count and storage type
\* are the record's when those are set and 0 when they are not, its name is
\* empty and its state 0 whatever the record's are, and the record is left
\* as it was.
C9_PayloadDefaultsWhenUnset ==
    [][(ret'.op = "_to_pb") =>
          LET c == clusters[ret'.self]
              pb == cluster_pb'[1]
          IN  /\ clusters' = clusters
              /\ project' = project
              /\ c.location_id # None => pb.location = LocationOf(ret'.self)
              /\ pb.serve_nodes = IF c.serve_nodes = None THEN 0 ELSE c.serve_nodes[1]
              /\ pb.default_storage_type =
                    IF c.default_storage_type = None THEN 0
                    ELSE c.default_storage_type[1]
              /\ pb.name = << >>
              /\ pb.state = 0]_vars

C9_Witness ==
    /\ ret.op = "_to_pb"
    /\ clusters[ret.self]._state = Some(MaxState)
    /\ clusters[ret.self].serve_nodes = None
    /\ clusters[ret.self].location_id = Some(<<"a", "/", "b">>)
    /\ project[1] = <<"q">>
    /\ cluster_pb[1].serve_nodes = 0
    /\ cluster_pb[1].state = 0

====
